---- MODULE Spec2Model ----
(***************************************************************************)
(* Model of k8rs (src/main.rs): a process that watches the Kubernetes      *)
(* Event stream of one namespace and turns Pod "Created" / "Killing"       *)
(* events into two labelled Prometheus counters served over HTTP.          *)
(*                                                                         *)
(* Three activities run concurrently once main has started them:           *)
(*   - main itself, which waits for ctrl-c and then returns,               *)
(*   - the exposition-server task (build_pair, then axum::serve),          *)
(*   - the reconciliation-loop task (event_stream.next(), then the match). *)
(* The only state they share is the process-wide metrics recorder.  Until  *)
(* build_pair has installed the Prometheus recorder, the metrics macros    *)
(* act on the no-op recorder, which stores nothing.                        *)
(*                                                                         *)
(* Optional values are modelled as sequences: <<>> is None, <<v>> is       *)
(* Some(v).  Log lines (info!/error!) carry no state and are not modelled. *)
(***************************************************************************)
EXTENDS Integers, Sequences, FiniteSets, TLC

\* ------------------------------------------------------------------------
\* Bounds of the model
\* ------------------------------------------------------------------------
\* number of delivered notifications that the loop or the specification
\* counts (the other notifications are delivered without limit)
MaxIncrements == 2

\* ------------------------------------------------------------------------
\* Program constants
\* ------------------------------------------------------------------------
POD_DELETE_COUNTER == "deleted_pods"
POD_CREATE_COUNTER == "created_pods"
TIME_METRIC_LABEL == "event_time"
POD_ID_LABEL == "pod_id"

CounterNames == {POD_DELETE_COUNTER, POD_CREATE_COUNTER}

\* ------------------------------------------------------------------------
\* Inputs: events and watch notifications
\* ------------------------------------------------------------------------
None == <<>>
Some(v) == <<v>>

\* first_timestamp values: the instant to the second, already in the
\* calendar form chrono prints, and the sub-second part in nanoseconds
Timestamps ==
    { [secs |-> "2024-01-02T03:04:05", nanos |-> 123000000] }

Uids == { "abc-123" }

Kinds == { None, Some("Pod"), Some("Node"), Some("pod") }

Reasons ==
    { None, Some("Pulled"), Some("Created"), Some("Scheduled"),
      Some("Started"), Some("Updated"), Some("Killing"), Some("Failed") }

\* k8s_openapi Event, reduced to the fields main.rs reads (name_any() is
\* read for log lines only)
Events ==
    [ kind : Kinds, reason : Reasons,
      first_timestamp : {None} \cup { Some(t) : t \in Timestamps },
      uid : {None} \cup { Some(u) : u \in Uids } ]

HasBothLabels(e) == e.first_timestamp # None /\ e.uid # None

\* Result<watcher::Event<Event>, watcher::Error> as yielded by the stream
Notifications ==
    [ variant : {"Apply", "Delete", "InitApply"}, ev : { Some(e) : e \in Events } ]
    \cup [ variant : {"Init", "InitDone", "Error"}, ev : {None} ]

\* The notifications the watch stream delivers in the model.  Every
\* variant is delivered.  Apply carries, about a Pod, every reason with
\* both label fields present and the two counted reasons with both label
\* fields absent, and a counted reason about a Node, about a "pod" and
\* about no kind;
\* Delete carries the counted reasons about a Pod and one about a Node;
\* InitApply carries the counted reasons about a Pod.
StreamNotifications ==
    { n \in Notifications :
        \/ n.variant \in {"Init", "InitDone", "Error"}
        \/ /\ n.variant = "Apply"
           /\ \/ n.ev[1].kind = Some("Pod") /\ HasBothLabels(n.ev[1])
              \/ /\ n.ev[1].kind = Some("Pod")
                 /\ n.ev[1].reason \in {Some("Created"), Some("Killing")}
                 /\ n.ev[1].first_timestamp = None /\ n.ev[1].uid = None
              \/ /\ HasBothLabels(n.ev[1])
                 /\ << n.ev[1].kind, n.ev[1].reason >> \in
                      { << Some("Node"), Some("Created") >>,
                        << Some("pod"), Some("Created") >>,
                        << None, Some("Killing") >> }
        \/ /\ n.variant = "Delete"
           /\ HasBothLabels(n.ev[1])
           /\ << n.ev[1].kind, n.ev[1].reason >> \in
                { << Some("Pod"), Some("Created") >>,
                  << Some("Pod"), Some("Killing") >>,
                  << Some("Node"), Some("Killing") >> }
        \/ /\ n.variant = "InitApply"
           /\ HasBothLabels(n.ev[1])
           /\ n.ev[1].kind = Some("Pod")
           /\ n.ev[1].reason \in {Some("Created"), Some("Killing")} }

\* the events those notifications carry
StreamEvents == { n.ev[1] : n \in { m \in StreamNotifications : m.ev # None } }

\* watcher(api, Config::default()).default_backoff(): the stream is a state
\* machine.  From "empty" it lists and yields Init; while "listing" it
\* yields InitApply for each listed object and then InitDone; while
\* "watching" it yields Apply and Delete for live changes.  A failure is
\* yielded as Err; a failed list or an expired watch returns to "empty",
\* so that the next success is a fresh Init (the resync).
WatcherYields(st, n) ==
    \/ n.variant = "Error"
    \/ st = "empty" /\ n.variant = "Init"
    \/ st = "listing" /\ n.variant \in {"InitApply", "InitDone"}
    \/ st = "watching" /\ n.variant \in {"Apply", "Delete"}

WatcherAfter(st, n) ==
    IF n.variant \in {"Init", "InitApply"} THEN {"listing"}
    ELSE IF n.variant \in {"InitDone", "Apply", "Delete"} THEN {"watching"}
    ELSE IF st = "watching" THEN {"watching", "empty"}
    ELSE {"empty"}

\* ------------------------------------------------------------------------
\* Label extraction
\* ------------------------------------------------------------------------
\* three-digit rendering of the millisecond part
Millis3(ms) ==
    IF ms < 10 THEN "00" \o ToString(ms)
    ELSE IF ms < 100 THEN "0" \o ToString(ms)
    ELSE ToString(ms)

\* DateTime<Utc>::to_rfc3339_opts(SecondsFormat::Millis, use_z): the
\* fractional part is cut to milliseconds; the offset of UTC is written
\* "Z" only when use_z is true, "+00:00" otherwise
ToRfc3339Opts(t, use_z) ==
    t.secs \o "." \o Millis3(t.nanos \div 1000000)
      \o (IF use_z THEN "Z" ELSE "+00:00")

extract_label_values_from_event(ev) ==
    [ time      |-> IF ev.first_timestamp = None THEN ""
                    ELSE ToRfc3339Opts(ev.first_timestamp[1], FALSE),
      object_id |-> IF ev.uid = None THEN "" ELSE ev.uid[1] ]

\* the key of one label partition of one counter:
\* name plus [(TIME_METRIC_LABEL, time), (POD_ID_LABEL, object_id)]
Key(name, labels) == << name, labels.time, labels.object_id >>

\* ------------------------------------------------------------------------
\* The metrics registry (the Prometheus recorder)
\* ------------------------------------------------------------------------
EmptyRegistry == << >>

RECURSIVE SumOver(_, _)
SumOver(reg, keys) ==
    IF keys = {} THEN 0
    ELSE LET k == CHOOSE x \in keys : TRUE
         IN reg[k] + SumOver(reg, keys \ {k})

\* the value of a counter summed over its label partitions
CounterTotal(reg, name) == SumOver(reg, { k \in DOMAIN reg : k[1] = name })

Total(reg) == SumOver(reg, DOMAIN reg)

\* Counter::increment(1) on the partition registered under key k: the
\* partition is created on first use and incremented afterwards
Increment(reg, k) ==
    IF k \in DOMAIN reg
    THEN [ reg EXCEPT ![k] = @ + 1 ]
    ELSE [ x \in (DOMAIN reg) \cup {k} |-> IF x = k THEN 1 ELSE reg[x] ]

\* variant: the partition map is rebuilt around the incremented key
CounterIncrement_replace(inst, reg, k) ==
    IF inst THEN [ x \in {k} |-> 1 ] ELSE reg

\* variant: the increment is applied twice
CounterIncrement_twice(inst, reg, k) ==
    IF inst THEN Increment(Increment(reg, k), k) ELSE reg

\* counter!(name, labels).increment(1): acts on the installed recorder;
\* without one the macro yields a no-op counter
CounterIncrement(installed, reg, k) ==
    IF installed THEN Increment(reg, k) ELSE reg

\* describe_counter!(name, unit, description): acts on the installed
\* recorder; without one the description goes to the no-op recorder
DescribeCounter(installed, descs, name) ==
    IF installed THEN descs \cup {name} ELSE descs

\* ------------------------------------------------------------------------
\* The match of the reconciliation loop
\* ------------------------------------------------------------------------
\* variant: the guard tests is_some() instead of is_some_and(kind == "Pod")
IsPodApplyOrDelete_anyKind(n) ==
    /\ n.variant \in {"Apply", "Delete"}
    /\ n.ev[1].kind # None

\* variant: the first arm matches Apply alone
IsPodApplyOrDelete_applyOnly(n) ==
    /\ n.variant = "Apply"
    /\ n.ev[1].kind # None
    /\ n.ev[1].kind[1] = "Pod"

\* variant: the first arm matches InitApply as well
IsPodApplyOrDelete_initApply(n) ==
    /\ n.variant \in {"Apply", "Delete", "InitApply"}
    /\ n.ev[1].kind # None
    /\ n.ev[1].kind[1] = "Pod"

\* the guard of the first arm: Apply or Delete whose involved_object.kind
\* is Some("Pod")
IsPodApplyOrDelete(n) ==
    /\ n.variant \in {"Apply", "Delete"}
    /\ n.ev[1].kind # None
    /\ n.ev[1].kind[1] = "Pod"

\* variant: the "Started" arm increments created_pods as well
ReasonArm_startedCreates(reason) ==
    IF reason = "Created" \/ reason = "Started" THEN "create"
    ELSE IF reason \in {"Pulled", "Scheduled", "Updated"} THEN "log"
    ELSE IF reason = "Killing" THEN "delete"
    ELSE "skip"

\* the inner match on the reason string: which arm is taken
ReasonArm(reason) ==
    IF reason = "Pulled" THEN "log"
    ELSE IF reason = "Created" THEN "create"
    ELSE IF reason = "Scheduled" THEN "log"
    ELSE IF reason = "Started" THEN "log"
    ELSE IF reason = "Updated" THEN "log"
    ELSE IF reason = "Killing" THEN "delete"
    ELSE "skip"

\* variant: the two arms name each other's counter
CounterOf_swapped(n) ==
    IF IsPodApplyOrDelete(n) /\ n.ev[1].reason # None
    THEN IF ReasonArm(n.ev[1].reason[1]) = "create" THEN Some(POD_DELETE_COUNTER)
         ELSE IF ReasonArm(n.ev[1].reason[1]) = "delete" THEN Some(POD_CREATE_COUNTER)
         ELSE None
    ELSE None

\* the counter a notification increments: Some(name) or None
CounterOf(n) ==
    IF IsPodApplyOrDelete(n) /\ n.ev[1].reason # None
    THEN IF ReasonArm(n.ev[1].reason[1]) = "create" THEN Some(POD_CREATE_COUNTER)
         ELSE IF ReasonArm(n.ev[1].reason[1]) = "delete" THEN Some(POD_DELETE_COUNTER)
         ELSE None
    ELSE None

\* the partition a notification increments (defined when CounterOf is Some)
KeyOf(n) == Key(CounterOf(n)[1], extract_label_values_from_event(n.ev[1]))

\* variant: the catch-all arm Ok(_) counts the listed Pod events
Handle_countsListed(inst, reg, n) ==
    IF CounterOf(n) # None THEN CounterIncrement(inst, reg, KeyOf(n))
    ELSE IF /\ n.variant = "InitApply"
            /\ n.ev[1].kind = Some("Pod")
            /\ n.ev[1].reason \in {Some("Created"), Some("Killing")}
         THEN CounterIncrement(inst, reg,
                  Key(IF n.ev[1].reason = Some("Created") THEN POD_CREATE_COUNTER
                      ELSE POD_DELETE_COUNTER,
                      extract_label_values_from_event(n.ev[1])))
         ELSE reg

\* the registry after the match has handled notification n
Handle(installed, reg, n) ==
    IF CounterOf(n) = None THEN reg
    ELSE CounterIncrement(installed, reg, KeyOf(n))

\* ------------------------------------------------------------------------
\* State
\* ------------------------------------------------------------------------
VARIABLES
    mainPc,        \* position of main
    listener,      \* the TcpListener: "none", "bound", "closed"
    signal,        \* ctrl-c has been delivered to the process
    srvSignal,     \* the server's shutdown_signal() future has completed
    serverPc,      \* position of the exposition-server task
    inflight,      \* the request the server is answering: None or Some(path)
    snap,          \* counter values of the last /metrics response
    pong,          \* the /ping response written last on the connection:
                   \* None or Some(response); None again at the next request
    installed,     \* the Prometheus recorder is the global recorder
    described,     \* counters the recorder holds a description for
    registry,      \* the recorder's counters: partition key -> value
    loopPc,        \* position of the reconciliation-loop task
    watcher,       \* state of the watch stream: "empty", "listing", "watching"
    cur,           \* the notification taken last: None or Some(n)
    errSeen,       \* history: an Error notification has been handled
    issued,        \* history: increment calls made by the loop, per key
    seen           \* history: notifications handled, per classification

vars == << mainPc, listener, signal, srvSignal, serverPc, inflight,
           snap, pong, installed, described, registry, loopPc, watcher, cur,
           errSeen, issued, seen >>

serverVars == << srvSignal, serverPc, inflight, snap, pong >>
recorderVars == << installed, described, registry >>
loopVars == << loopPc, watcher, cur, errSeen >>
historyVars == << issued, seen >>

Init ==
    /\ mainPc = "bind"
    /\ listener = "none"
    /\ signal = FALSE
    /\ srvSignal = FALSE
    /\ serverPc = "unspawned"
    /\ inflight = None
    /\ snap = EmptyRegistry
    /\ pong = None
    /\ installed = FALSE
    /\ described = {}
    /\ registry = EmptyRegistry
    /\ loopPc = "unspawned"
    /\ watcher = "empty"
    /\ cur = None
    /\ errSeen = FALSE
    /\ issued = EmptyRegistry
    /\ seen = [ created |-> 0, deleted |-> 0 ]

\* ------------------------------------------------------------------------
\* main
\* ------------------------------------------------------------------------
\* TcpListener::bind("0.0.0.0:8080"): the socket, or the error returned
MainBind ==
    /\ mainPc = "bind"
    /\ \/ mainPc' = "client" /\ listener' = "bound"
       \/ mainPc' = "exit_err" /\ listener' = listener
    /\ UNCHANGED << signal, serverVars, recorderVars, loopVars, historyVars >>

\* variant: the error return leaves the bound listener behind
MainClient_keepsListener ==
    /\ mainPc = "client"
    /\ mainPc' \in {"init_counters", "exit_err"}
    /\ listener' = listener
    /\ UNCHANGED << signal, serverVars, recorderVars, loopVars, historyVars >>

\* Client::try_default(): the client, or the error returned; returning
\* drops the listener
MainClient ==
    /\ mainPc = "client"
    /\ \/ mainPc' = "init_counters" /\ listener' = listener
       \/ mainPc' = "exit_err" /\ listener' = "closed"
    /\ UNCHANGED << signal, serverVars, recorderVars, loopVars, historyVars >>

\* initialize_counters(): the two describe_counter! calls
initialize_counters(inst, descs) ==
    DescribeCounter(inst, DescribeCounter(inst, descs, POD_DELETE_COUNTER),
                    POD_CREATE_COUNTER)

MainInitCounters ==
    /\ mainPc = "init_counters"
    /\ described' = initialize_counters(installed, described)
    /\ mainPc' = "spawn_server"
    /\ UNCHANGED << listener, signal, serverVars, installed, registry,
                    loopVars, historyVars >>

\* task::spawn of the exposition server
MainSpawnServer ==
    /\ mainPc = "spawn_server"
    /\ serverPc' = "build_pair"
    /\ mainPc' = "spawn_loop"
    /\ UNCHANGED << listener, signal, srvSignal, inflight, snap, pong,
                    recorderVars, loopVars, historyVars >>

\* task::spawn of the reconciliation loop
MainSpawnLoop ==
    /\ mainPc = "spawn_loop"
    /\ loopPc' = "next"
    /\ mainPc' = "wait_signal"
    /\ UNCHANGED << listener, signal, serverVars, recorderVars, watcher, cur,
                    errSeen, historyVars >>

\* the operator's interrupt, delivered once; the server's shutdown_signal()
\* future sees it only if the server is already serving
Signal ==
    /\ mainPc = "wait_signal"
    /\ ~signal
    /\ signal' = TRUE
    /\ srvSignal' = (serverPc = "serving")
    /\ UNCHANGED << mainPc, listener, serverPc, inflight, snap, pong,
                    recorderVars, loopVars, historyVars >>

\* tokio::signal::ctrl_c().await completes and main returns Ok(()).  The
\* runtime is dropped with main's return: it drops each task where the task
\* is suspended (a response in flight is dropped with the server task, and
\* the listener with it) and then the process exits.  A task that never
\* suspends is never dropped, and the drop of the runtime waits for it.
\* No task reads main's position, so a step a task takes between main's
\* return and its own drop is the same step taken before the return: the
\* return and the drops are one step here.
Suspended(pc) == pc # "ended"

MainCtrlC ==
    /\ mainPc = "wait_signal"
    /\ signal
    /\ mainPc' = IF Suspended(loopPc) THEN "exit_ok" ELSE "shutdown"
    /\ serverPc' = "stopped"
    /\ inflight' = None
    /\ listener' = "closed"
    /\ loopPc' = IF Suspended(loopPc) THEN "stopped" ELSE loopPc
    /\ UNCHANGED << signal, srvSignal, snap, pong, recorderVars, watcher,
                    cur, errSeen, historyVars >>

\* ------------------------------------------------------------------------
\* the exposition-server task
\* ------------------------------------------------------------------------
Routes == { "/metrics", "/ping" }

\* PrometheusMetricLayerBuilder ... build_pair() and the router: installs
\* the Prometheus recorder as the global recorder
ServerBuildPair ==
    /\ serverPc = "build_pair"
    /\ installed' = TRUE
    /\ serverPc' = "serving"
    /\ UNCHANGED << mainPc, listener, signal, srvSignal, inflight,
                    snap, pong, described, registry, loopVars, historyVars >>

\* axum::serve accepts a connection and reads one request
ServerAccept ==
    /\ serverPc = "serving"
    /\ ~srvSignal
    /\ inflight = None
    /\ \E path \in Routes : inflight' = Some(path)
    /\ pong' = None
    /\ UNCHANGED << mainPc, listener, signal, srvSignal, serverPc, snap,
                    recorderVars, loopVars, historyVars >>

\* prom_handler.render(): the values of all partitions at this instant
Render(reg) == reg

\* variant: the handler answers with an empty body
PingHandler_empty == [ status |-> 200, body |-> "" ]

\* get(|| async move { "pong" }): a &'static str is answered 200 OK with
\* the string as the body
PingHandler == [ status |-> 200, body |-> "pong" ]

\* the route handler runs and the response is written
ServerRespond ==
    /\ serverPc \in {"serving", "draining"}
    /\ inflight # None
    /\ snap' = IF inflight[1] = "/metrics" THEN Render(registry) ELSE snap
    /\ pong' = IF inflight[1] = "/ping" THEN Some(PingHandler) ELSE pong
    /\ inflight' = None
    /\ UNCHANGED << mainPc, listener, signal, srvSignal, serverPc,
                    recorderVars, loopVars, historyVars >>

\* with_graceful_shutdown(shutdown_signal()): stop accepting
ServerGraceful ==
    /\ serverPc = "serving"
    /\ srvSignal
    /\ serverPc' = "draining"
    /\ UNCHANGED << mainPc, listener, signal, srvSignal, inflight,
                    snap, pong, recorderVars, loopVars, historyVars >>

\* axum::serve returns once no response is in flight; the task ends and
\* drops the listener
ServerDrained ==
    /\ serverPc = "draining"
    /\ inflight = None
    /\ serverPc' = "stopped"
    /\ listener' = "closed"
    /\ UNCHANGED << mainPc, signal, srvSignal, inflight, snap, pong,
                    recorderVars, loopVars, historyVars >>

\* ------------------------------------------------------------------------
\* the reconciliation-loop task
\* ------------------------------------------------------------------------
\* the classification the specification gives a notification
IsCreatedNotif(n) ==
    /\ n.variant \in {"Apply", "Delete"}
    /\ n.ev[1].kind = Some("Pod")
    /\ n.ev[1].reason = Some("Created")

IsDeletedNotif(n) ==
    /\ n.variant \in {"Apply", "Delete"}
    /\ n.ev[1].kind = Some("Pod")
    /\ n.ev[1].reason = Some("Killing")

\* One iteration of the loop: event_stream.next().await yields Some(n) and
\* the match handles n.  The match does not suspend and touches shared
\* state in one atomic increment, so the iteration is one step.
LoopStep(n) ==
    /\ loopPc = "next"
    /\ WatcherYields(watcher, n)
    /\ CounterOf(n) # None => Total(issued) < MaxIncrements
    /\ IsCreatedNotif(n) \/ IsDeletedNotif(n)
         => seen.created + seen.deleted < MaxIncrements
    /\ watcher' \in WatcherAfter(watcher, n)
    /\ cur' = Some(n)
    /\ errSeen' = (errSeen \/ n.variant = "Error")
    /\ registry' = Handle(installed, registry, n)
    /\ issued' = IF CounterOf(n) = None THEN issued
                 ELSE Increment(issued, KeyOf(n))
    /\ seen' = [ created |-> seen.created + (IF IsCreatedNotif(n) THEN 1 ELSE 0),
                 deleted |-> seen.deleted + (IF IsDeletedNotif(n) THEN 1 ELSE 0) ]
    /\ UNCHANGED << mainPc, listener, signal, serverVars, installed, described,
                    loopPc >>

LoopNext == \E n \in StreamNotifications : LoopStep(n)

\* event_stream.next().await yields None: the if-let fails and the loop
\* polls the ended stream again, for ever, without suspending
LoopStreamEnd ==
    /\ loopPc = "next"
    /\ loopPc' = "ended"
    /\ UNCHANGED << mainPc, listener, signal, serverVars, recorderVars,
                    watcher, cur, errSeen, historyVars >>

\* ------------------------------------------------------------------------
\* Specification
\* ------------------------------------------------------------------------
Next ==
    \/ MainBind
    \/ MainClient
    \/ MainInitCounters
    \/ MainSpawnServer
    \/ MainSpawnLoop
    \/ Signal
    \/ MainCtrlC
    \/ ServerBuildPair
    \/ ServerAccept
    \/ ServerRespond
    \/ ServerGraceful
    \/ ServerDrained
    \/ LoopNext
    \/ LoopStreamEnd

Spec == Init /\ [][Next]_vars

\* Scheduling: once the interrupt has been delivered, the ctrl_c() future of
\* main is woken and the runtime polls main (block_on runs main on its own
\* thread); a woken server task is polled by a worker.
FairSpec ==
    /\ Spec
    /\ WF_vars(MainCtrlC)
    /\ WF_vars(ServerRespond)
    /\ WF_vars(ServerGraceful)
    /\ WF_vars(ServerDrained)

\* ------------------------------------------------------------------------
\* Properties
\* ------------------------------------------------------------------------
\* an event the specification counts: about a Pod, reason Created or Killing
QualifyingEvent(e) ==
    e.kind = Some("Pod") /\ e.reason \in {Some("Created"), Some("Killing")}

\* the partition the specification assigns to a qualifying event
EventKey(e) ==
    Key(IF e.reason = Some("Created") THEN POD_CREATE_COUNTER
        ELSE POD_DELETE_COUNTER,
        extract_label_values_from_event(e))

Qualifying(n) == IsCreatedNotif(n) \/ IsDeletedNotif(n)

Valued(reg, k, v) == k \in DOMAIN reg /\ reg[k] = v

\* a step in which the loop has taken and handled a notification, which is
\* then cur' (only the loop changes these variables; a step that handles
\* an uncounted notification equal to the one before changes nothing)
LoopHandled ==
    /\ loopPc = "next"
    /\ << cur, watcher, errSeen, issued, seen >>'
         # << cur, watcher, errSeen, issued, seen >>

\* C1: once the recorder that /metrics serves is installed, created_pods
\* summed over its partitions equals the number of notifications handled
\* that are classified created, and deleted_pods the number classified
\* deleted.
C1_TotalsEqualClassified ==
    installed =>
        /\ CounterTotal(registry, POD_CREATE_COUNTER) = seen.created
        /\ CounterTotal(registry, POD_DELETE_COUNTER) = seen.deleted

\* C2: handling an Apply or Delete of a Pod event with reason Created
\* (Killing) raises the created_pods (deleted_pods) partition keyed by the
\* event's labels by exactly 1, creating it on first use, and changes no
\* other partition.
C2_QualifyingStepRaisesItsPartition ==
    [][ (LoopHandled /\ Qualifying(cur'[1]))
           => registry' = Increment(registry, EventKey(cur'[1].ev[1])) ]_vars

\* C3: an Apply or Delete whose involved_object.kind is absent or is not
\* exactly "Pod" changes no counter partition, whatever its reason: in the
\* steps of the loop, and for the match applied in every reachable registry
\* to every delivered event under either variant.
NotAboutPod(n) ==
    n.variant \in {"Apply", "Delete"} /\ n.ev[1].kind # Some("Pod")

C3_OtherKindsChangeNothing ==
    /\ [](\A e \in StreamEvents : \A v \in {"Apply", "Delete"} :
            e.kind # Some("Pod")
              => Handle(installed, registry, [variant |-> v, ev |-> Some(e)])
                   = registry)
    /\ [][ (LoopHandled /\ NotAboutPod(cur'[1])) => registry' = registry ]_vars

C3_Witness ==
    /\ installed
    /\ cur # None
    /\ NotAboutPod(cur[1])
    /\ cur[1].ev[1].reason = Some("Created")
    /\ registry = EmptyRegistry
    /\ issued = EmptyRegistry

\* C4: in every reachable counter state, the match gives Apply(e) and
\* Delete(e) the same resulting counter state, for every delivered event e.
C4_ApplyAndDeleteAlike ==
    \A e \in StreamEvents :
        Handle(installed, registry, [variant |-> "Apply", ev |-> Some(e)])
          = Handle(installed, registry, [variant |-> "Delete", ev |-> Some(e)])

C4_Witness ==
    /\ installed
    /\ cur # None
    /\ cur[1].variant = "Delete"
    /\ IsDeletedNotif(cur[1])
    /\ Valued(registry, EventKey(cur[1].ev[1]), 2)

\* C5 as stated: a qualifying event that is already counted and is
\* delivered again during the resync that follows an Init (the watcher is
\* listing after an Error) raises its partition a second time.
C5_ResyncRedeliveryCountsAgain ==
    [][ ( /\ LoopHandled
          /\ errSeen /\ watcher = "listing"
          /\ cur'[1].ev # None /\ QualifyingEvent(cur'[1].ev[1])
          /\ EventKey(cur'[1].ev[1]) \in DOMAIN registry )
           => registry' = Increment(registry, EventKey(cur'[1].ev[1])) ]_vars

\* C5 as amended: a qualifying event that is already counted leaves every
\* partition unchanged when it is delivered again as InitApply, which is
\* how the resync that follows an Init delivers it; it raises its partition
\* a second time only when it is delivered again as Apply or Delete.
C5_RedeliveryCountsOnlyAsApplyOrDelete ==
    [][ ( /\ LoopHandled
          /\ cur'[1].ev # None /\ QualifyingEvent(cur'[1].ev[1])
          /\ EventKey(cur'[1].ev[1]) \in DOMAIN registry )
           => /\ watcher = "listing" => cur'[1].variant = "InitApply"
              /\ registry' = IF cur'[1].variant = "InitApply" THEN registry
                             ELSE Increment(registry, EventKey(cur'[1].ev[1])) ]_vars

C5_Witness ==
    /\ errSeen
    /\ watcher = "listing"
    /\ cur # None
    /\ cur[1].variant = "InitApply"
    /\ cur[1].ev[1].reason = Some("Killing")
    /\ Valued(registry, EventKey(cur[1].ev[1]), 1)
    /\ Valued(issued, EventKey(cur[1].ev[1]), 1)

\* C6: the loop keeps no memory of what it handled: once the recorder is
\* installed, every partition holds the number of qualifying notifications
\* delivered for it (k deliveries of one notification raise it by k).
C6_EveryDeliveryCounts ==
    installed =>
        \A k \in DOMAIN issued : k \in DOMAIN registry /\ registry[k] = issued[k]

\* C7: an Error notification changes no counter and leaves the loop waiting
\* for the next notification, and a qualifying notification handled after
\* an Error is counted.
C7_ErrorsAreSurvived ==
    [][ LoopHandled =>
          /\ cur'[1].variant = "Error" => registry' = registry /\ loopPc' = "next"
          /\ (errSeen /\ Qualifying(cur'[1]))
                => registry' = Increment(registry, EventKey(cur'[1].ev[1])) ]_vars

\* C8: a counter that holds a partition (an increment has been applied to
\* it) is described in the registry.
C8_DescribedBeforeFirstIncrement ==
    \A k \in DOMAIN registry : k[1] \in described

\* C9: no step removes a partition or lowers its value.
C9_PartitionsNeverDecrease ==
    [][ \A k \in DOMAIN registry :
          k \in DOMAIN registry' /\ registry'[k] >= registry[k] ]_vars

C9_Witness ==
    /\ errSeen
    /\ mainPc = "exit_ok"
    /\ snap # EmptyRegistry
    /\ \E k \in DOMAIN registry : registry[k] = 2
    /\ Cardinality(DOMAIN registry) = 1

\* C10: every value a /metrics response reports for a partition is at most
\* the number of increments issued to that partition, and a later response
\* reports no partition lower than the response before it.
C10_SnapshotsBoundedAndMonotone ==
    /\ [](\A k \in DOMAIN snap : k \in DOMAIN issued /\ snap[k] <= issued[k])
    /\ [][ \A k \in DOMAIN snap :
             k \in DOMAIN snap' /\ snap'[k] >= snap[k] ]_vars

C10_Witness ==
    \E k \in DOMAIN snap :
        /\ snap[k] = 1
        /\ Valued(registry, k, 2)
        /\ inflight = Some("/metrics")
        /\ loopPc = "next"

\* C11: while the exposition server runs, a GET /ping in flight can be
\* answered in every state of the loop, leaves flight only by being answered
\* unless the process exits, and every /ping response is 200 with body
\* "pong"; this includes the runs in which the stream yields only Errors.
C11_PingAlwaysPong ==
    /\ [](pong # None => pong = Some([ status |-> 200, body |-> "pong" ]))
    /\ []((serverPc \in {"serving", "draining"} /\ inflight = Some("/ping"))
            => ENABLED ServerRespond)
    /\ [][ ( /\ inflight = Some("/ping") /\ inflight' = None
             /\ serverPc' \in {"serving", "draining"} )
              => pong' = Some([ status |-> 200, body |-> "pong" ]) ]_vars

C11_Witness ==
    /\ pong = Some([ status |-> 200, body |-> "pong" ])
    /\ serverPc = "serving"
    /\ loopPc = "next"
    /\ errSeen
    /\ cur = Some([ variant |-> "Error", ev |-> None ])
    /\ watcher = "empty"
    /\ issued = EmptyRegistry
    /\ seen = [ created |-> 0, deleted |-> 0 ]

\* C12: after the termination signal no new request is accepted, and a
\* response that is in flight leaves flight only by being written by the
\* server (which is then still serving or draining), never by being dropped.
C12_GracefulShutdown ==
    /\ [][ signal => ~(inflight = None /\ inflight' # None) ]_vars
    /\ [][ (signal /\ inflight # None /\ inflight' = None)
              => serverPc' \in {"serving", "draining"} ]_vars

C14_StartupFailureLeavesNothing ==
    mainPc = "exit_err" =>
        /\ serverPc = "unspawned" /\ loopPc = "unspawned"
        /\ ~installed /\ described = {}
        /\ registry = EmptyRegistry /\ issued = EmptyRegistry
        /\ inflight = None /\ snap = EmptyRegistry /\ pong = None
        /\ listener # "bound"

C14_Witness ==
    /\ mainPc = "exit_err"
    /\ listener = "closed"
    /\ serverPc = "unspawned"
    /\ loopPc = "unspawned"

\* C15: when the loop has issued an increment for an event, the time label
\* of the partition is the first_timestamp rendered to milliseconds with the
\* suffix "Z" when first_timestamp is present (2024-01-02T03:04:05.123Z),
\* and the object_id label is involved_object.uid when uid is present.
C15_TimeLabelEndsInZ ==
    (cur # None /\ CounterOf(cur[1]) # None) =>
        \E k \in DOMAIN issued :
            LET e == cur[1].ev[1] IN
            /\ k = KeyOf(cur[1])
            /\ e.first_timestamp # None =>
                 k[2] = e.first_timestamp[1].secs \o "."
                          \o Millis3(e.first_timestamp[1].nanos \div 1000000) \o "Z"
            /\ ( e.first_timestamp = Some([ secs |-> "2024-01-02T03:04:05",
                                            nanos |-> 123000000 ])
                  => k[2] = "2024-01-02T03:04:05.123Z" )
            /\ e.uid # None => k[3] = e.uid[1]

\* C16: an Apply or Delete of a Pod event with reason Created or Killing
\* that lacks first_timestamp or uid raises by exactly 1 the partition that
\* has the empty string for each absent label, and the loop goes on; a Pod
\* event without reason changes no partition.
C16_AbsentLabelsCountUnderEmptyString ==
    [][ (LoopHandled /\ cur'[1].variant \in {"Apply", "Delete"}
           /\ cur'[1].ev[1].kind = Some("Pod"))
          => LET e == cur'[1].ev[1] IN
             /\ (QualifyingEvent(e) /\ ~HasBothLabels(e))
                   => /\ registry' = Increment(registry,
                            << IF e.reason = Some("Created")
                               THEN POD_CREATE_COUNTER ELSE POD_DELETE_COUNTER,
                               IF e.first_timestamp = None THEN ""
                               ELSE extract_label_values_from_event(e).time,
                               IF e.uid = None THEN "" ELSE e.uid[1] >>)
                      /\ loopPc' = "next"
             /\ e.reason = None => registry' = registry ]_vars

\* C17: Init, InitDone, and an Apply or Delete of a Pod event whose reason
\* is a string other than "Created" and "Killing" change no partition: in
\* the steps of the loop, and for the match applied in every reachable
\* registry to every delivered event under either variant.
Uncounted(n) ==
    \/ n.variant \in {"Init", "InitDone"}
    \/ /\ n.variant \in {"Apply", "Delete"}
       /\ n.ev[1].kind = Some("Pod")
       /\ n.ev[1].reason \notin {None, Some("Created"), Some("Killing")}

\* the delivered Pod events whose reason is a string that is not counted
InformationalEvents ==
    { e \in StreamEvents :
        \A v \in {"Apply", "Delete"} : Uncounted([variant |-> v, ev |-> Some(e)]) }

C17_InformationalChangesNothing ==
    /\ [](\A e \in InformationalEvents : \A v \in {"Apply", "Delete"} :
            Handle(installed, registry, [variant |-> v, ev |-> Some(e)])
              = registry)
    /\ [][ (LoopHandled /\ Uncounted(cur'[1])) => registry' = registry ]_vars

C17_Witness ==
    /\ installed
    /\ cur # None
    /\ cur[1].variant = "Apply"
    /\ cur[1].ev[1].kind = Some("Pod")
    /\ cur[1].ev[1].reason = Some("Started")
    /\ registry # EmptyRegistry
    /\ registry = issued

\* C18: an increment is issued only in the step in which the loop takes a
\* qualifying notification, and it is the increment of that notification;
\* the step that takes a qualifying notification issues its increment
\* before the next notification is taken.  Each step takes one notification,
\* so the increments issued are the qualifying notifications in the order
\* of delivery, with nothing held back or reordered.
C18_IncrementsFollowDeliveryOrder ==
    /\ [][ issued' # issued
              => /\ LoopHandled
                 /\ Qualifying(cur'[1])
                 /\ issued' = Increment(issued, EventKey(cur'[1].ev[1])) ]_vars
    /\ [][ (LoopHandled /\ Qualifying(cur'[1]))
              => issued' = Increment(issued, EventKey(cur'[1].ev[1])) ]_vars
    /\ [][ (LoopHandled /\ ~Qualifying(cur'[1])) => issued' = issued ]_vars

C18_Witness ==
    /\ ~installed
    /\ Total(issued) = 2
    /\ Cardinality(DOMAIN issued) = 2
    /\ cur # None
    /\ IsCreatedNotif(cur[1])
    /\ \E k \in DOMAIN issued : k[1] = POD_DELETE_COUNTER

\* C19: the loop issues an increment only when the recorder that backs
\* /metrics is already installed.
C19_RecorderInstalledBeforeFirstIncrement ==
    [][ issued' # issued => installed ]_vars

\* C20: an InitApply notification changes no partition, also when it
\* carries a Pod event with reason Created or Killing: in the steps of the
\* loop, and for the match applied in every reachable registry to every
\* delivered event.
C20_InitApplyChangesNothing ==
    /\ [](\A e \in StreamEvents :
            Handle(installed, registry, [variant |-> "InitApply", ev |-> Some(e)])
              = registry)
    /\ [][ (LoopHandled /\ cur'[1].variant = "InitApply")
              => registry' = registry ]_vars

C20_Witness ==
    /\ installed
    /\ ~errSeen
    /\ cur # None
    /\ cur[1].variant = "InitApply"
    /\ cur[1].ev[1].reason = Some("Created")
    /\ watcher = "listing"
    /\ registry = EmptyRegistry

====
